---- MODULE Spec2Model ----
(***************************************************************************)
(* genai_scaffold: the configuration model (core/config.py) and the        *)
(* project generator (generators/project_generator.py).                    *)
(*                                                                         *)
(* A ProjectConfig is constructed from raw field values and validated by   *)
(* __post_init__; ProjectGenerator.generate then creates the destination   *)
(* tree by a fixed sequence of helper methods, each of which performs a    *)
(* fixed list of mkdir / render / touch operations.                        *)
(***************************************************************************)
EXTENDS Integers, Sequences, FiniteSets, TLC

\* ------------------------------------------------------------------------
\* Bounds
\* ------------------------------------------------------------------------

\* number of generate() calls into the same destination root
MaxRuns == 2

\* ------------------------------------------------------------------------
\* core/config.py : ProjectConfig
\* ------------------------------------------------------------------------

\* Python's None, as a value of observability_tool
None == "None"

\* a value that is in none of the allowed lists
InvalidValue == "invalid"

valid_llm_providers == {"openai", "anthropic", "azure", "ollama", "local"}
valid_orchestrators == {"langchain", "llamaindex", "dspy", "none"}
valid_vector_dbs == {"pinecone", "chromadb", "qdrant", "pgvector"}
valid_ui_frameworks == {"streamlit", "gradio", "fastapi", "none"}
valid_dependency_managers == {"poetry", "pip"}
valid_observability_tools == {"langsmith", "wandb", None}

ProjectNames == {"test-app"}

\* every argument list the constructor is called with: each enum field takes
\* its allowed values and one value outside them
ConstructorArgs ==
    [project_name : ProjectNames,
     llm_provider : valid_llm_providers \cup {InvalidValue},
     orchestrator : valid_orchestrators \cup {InvalidValue},
     vector_db : valid_vector_dbs \cup {InvalidValue},
     ui_framework : valid_ui_frameworks \cup {InvalidValue},
     dependency_manager : valid_dependency_managers \cup {InvalidValue},
     enable_observability : BOOLEAN,
     observability_tool : valid_observability_tools \cup {InvalidValue},
     enable_docker : BOOLEAN]

\* the field values before any ProjectConfig exists
NoConfig ==
    [project_name |-> "", llm_provider |-> "", orchestrator |-> "",
     vector_db |-> "", ui_framework |-> "", dependency_manager |-> "",
     enable_observability |-> FALSE, observability_tool |-> "",
     enable_docker |-> FALSE]

\* exceptions
NoError == [type |-> "NoError", label |-> "", value |-> ""]
ValueError(label, value) == [type |-> "ValueError", label |-> label, value |-> value]
TemplateNotFound(name) == [type |-> "TemplateNotFound", label |-> "", value |-> name]
FileNotFoundError(name) == [type |-> "FileNotFoundError", label |-> "", value |-> name]
FileExistsError(name) == [type |-> "FileExistsError", label |-> "", value |-> name]
NotADirectoryError(name) == [type |-> "NotADirectoryError", label |-> "", value |-> name]
IsADirectoryError(name) == [type |-> "IsADirectoryError", label |-> "", value |-> name]

\* a __post_init__ that forgets the vector_db check
post_init_no_vector_db(self) ==
    IF self.llm_provider \notin valid_llm_providers
    THEN ValueError("Invalid LLM provider", self.llm_provider)
    ELSE IF self.orchestrator \notin valid_orchestrators
    THEN ValueError("Invalid orchestrator", self.orchestrator)
    ELSE IF self.ui_framework \notin valid_ui_frameworks
    THEN ValueError("Invalid UI framework", self.ui_framework)
    ELSE IF self.dependency_manager \notin valid_dependency_managers
    THEN ValueError("Invalid dependency manager", self.dependency_manager)
    ELSE IF self.observability_tool \notin valid_observability_tools
    THEN ValueError("Invalid observability tool", self.observability_tool)
    ELSE NoError

\* ProjectConfig.__post_init__: the exception it raises, NoError if none
post_init(self) ==
    IF self.llm_provider \notin valid_llm_providers
    THEN ValueError("Invalid LLM provider", self.llm_provider)
    ELSE IF self.orchestrator \notin valid_orchestrators
    THEN ValueError("Invalid orchestrator", self.orchestrator)
    ELSE IF self.vector_db \notin valid_vector_dbs
    THEN ValueError("Invalid vector DB", self.vector_db)
    ELSE IF self.ui_framework \notin valid_ui_frameworks
    THEN ValueError("Invalid UI framework", self.ui_framework)
    ELSE IF self.dependency_manager \notin valid_dependency_managers
    THEN ValueError("Invalid dependency manager", self.dependency_manager)
    ELSE IF self.observability_tool \notin valid_observability_tools
    THEN ValueError("Invalid observability tool", self.observability_tool)
    ELSE NoError

\* ------------------------------------------------------------------------
\* generators/project_generator.py : ProjectGenerator
\* ------------------------------------------------------------------------

\* a _build_context whose use_dspy line was copied from use_langchain
build_context_copied_flag(cfg) ==
    [project_name |-> cfg.project_name,
     llm_provider |-> cfg.llm_provider,
     orchestrator |-> cfg.orchestrator,
     vector_db |-> cfg.vector_db,
     ui_framework |-> cfg.ui_framework,
     dependency_manager |-> cfg.dependency_manager,
     enable_observability |-> cfg.enable_observability,
     observability_tool |-> cfg.observability_tool,
     enable_docker |-> cfg.enable_docker,
     use_langchain |-> cfg.orchestrator = "langchain",
     use_llamaindex |-> cfg.orchestrator = "llamaindex",
     use_dspy |-> cfg.orchestrator = "langchain",
     use_openai |-> cfg.llm_provider = "openai",
     use_anthropic |-> cfg.llm_provider = "anthropic",
     use_azure |-> cfg.llm_provider = "azure",
     use_ollama |-> cfg.llm_provider = "ollama",
     use_pinecone |-> cfg.vector_db = "pinecone",
     use_chromadb |-> cfg.vector_db = "chromadb",
     use_qdrant |-> cfg.vector_db = "qdrant",
     use_pgvector |-> cfg.vector_db = "pgvector",
     use_streamlit |-> cfg.ui_framework = "streamlit",
     use_gradio |-> cfg.ui_framework = "gradio",
     use_fastapi |-> cfg.ui_framework = "fastapi",
     use_poetry |-> cfg.dependency_manager = "poetry",
     use_langsmith |-> cfg.observability_tool = "langsmith",
     use_wandb |-> cfg.observability_tool = "wandb"]

\* ProjectGenerator._build_context
build_context(cfg) ==
    [project_name |-> cfg.project_name,
     llm_provider |-> cfg.llm_provider,
     orchestrator |-> cfg.orchestrator,
     vector_db |-> cfg.vector_db,
     ui_framework |-> cfg.ui_framework,
     dependency_manager |-> cfg.dependency_manager,
     enable_observability |-> cfg.enable_observability,
     observability_tool |-> cfg.observability_tool,
     enable_docker |-> cfg.enable_docker,
     use_langchain |-> cfg.orchestrator = "langchain",
     use_llamaindex |-> cfg.orchestrator = "llamaindex",
     use_dspy |-> cfg.orchestrator = "dspy",
     use_openai |-> cfg.llm_provider = "openai",
     use_anthropic |-> cfg.llm_provider = "anthropic",
     use_azure |-> cfg.llm_provider = "azure",
     use_ollama |-> cfg.llm_provider = "ollama",
     use_pinecone |-> cfg.vector_db = "pinecone",
     use_chromadb |-> cfg.vector_db = "chromadb",
     use_qdrant |-> cfg.vector_db = "qdrant",
     use_pgvector |-> cfg.vector_db = "pgvector",
     use_streamlit |-> cfg.ui_framework = "streamlit",
     use_gradio |-> cfg.ui_framework = "gradio",
     use_fastapi |-> cfg.ui_framework = "fastapi",
     use_poetry |-> cfg.dependency_manager = "poetry",
     use_langsmith |-> cfg.observability_tool = "langsmith",
     use_wandb |-> cfg.observability_tool = "wandb"]

\* the context before generate() has built one
NoContext == build_context(NoConfig)

\* ------------------------------------------------------------------------
\* State
\* ------------------------------------------------------------------------

VARIABLES
    config,     \* field values of the ProjectConfig last constructed (self)
    error,      \* the exception raised by the last operation, NoError if none
    context,    \* the template context of the current generate() call
    pc,         \* position: "none" no valid config, "ready", the helper to
                \* run next, "done", "failed"
    dirs,       \* directories under the destination root (paths)
    files,      \* files under the destination root: path -> content
    log,        \* filesystem events of the current generate() call, in order
    runs,       \* generate() calls started so far
    templates,  \* template names the jinja2 loader can find
    prev_log,   \* the filesystem events of the previous generate() call
    argv,       \* sys.argv of a `python -m genai_scaffold` process
    destination, \* the directory name the destination root was created under
    exit_status, \* exit status of the process, NoExit while it runs
    success,    \* the success message has been printed
    tree,       \* entries of TEMPLATES_DIR as rglob('*') yields them
    todo        \* entries render_templates has still to visit

\* the state of the command-line processes, which generate() does not touch
cli == <<argv, exit_status, success, tree, todo>>

vars == <<config, error, context, pc, dirs, files, log, runs, templates,
          prev_log, argv, destination, exit_status, success, tree, todo>>

\* ------------------------------------------------------------------------
\* Templates and paths.  A path is the sequence of its components relative
\* to the destination root; <<>> is the root itself.
\* ------------------------------------------------------------------------

AllTemplates ==
    {"new/README.md.j2", "new/.env.example.j2", "new/.gitignore.j2",
     "new/Makefile.j2", "new/src/__init__.py.j2", "new/src/config.py.j2",
     "new/src/prompts/__init__.py.j2", "new/src/prompts/loader.py.j2",
     "new/src/prompts/templates.yaml.j2", "new/src/utils/__init__.py.j2",
     "new/src/utils/logger.py.j2", "new/tests/__init__.py.j2",
     "new/tests/conftest.py.j2", "new/tests/test_example.py.j2",
     "new/pytest.ini.j2", "new/src/llm/__init__.py.j2",
     "new/src/llm/client.py.j2", "new/src/rag_pipeline.py.j2",
     "new/src/vector_store.py.j2", "new/app_streamlit.py.j2",
     "new/app_gradio.py.j2", "new/app_fastapi.py.j2",
     "new/pyproject.toml.j2", "new/requirements.txt.j2",
     "new/requirements-dev.txt.j2", "new/Dockerfile.j2",
     "new/docker-compose.yml.j2", "new/src/observability.py.j2"}

Root == << >>

\* Path.parent
Parent(p) == SubSeq(p, 1, Len(p) - 1)

\* p and all its ancestors up to the root
Ancestors(p) == {SubSeq(p, 1, k) : k \in 0..Len(p)}

\* template.render(**context): the text is determined by the template and
\* the context it is rendered with
Render(template_name, ctx) == [template |-> template_name, context |-> ctx]

\* the content of a file created by Path.touch()
EmptyFile == [template |-> "", context |-> NoContext]

\* operations of the helper methods
Mkdir(p) == [op |-> "mkdir", path |-> p, template |-> ""]
RenderTemplate(t, p) == [op |-> "render", path |-> p, template |-> t]
Touch(p) == [op |-> "touch", path |-> p, template |-> ""]

\* filesystem events recorded in log
MkdirEvent(p) == [op |-> "mkdir", path |-> p, template |-> ""]
WriteEvent(t, p) == [op |-> "write", path |-> p, template |-> t]
TouchEvent(p) == [op |-> "touch", path |-> p, template |-> ""]

\* the last component of a path, the root's being empty
Name(p) == IF p = << >> THEN "" ELSE p[Len(p)]

\* a mkdir without parents=True: the parent has to exist already
mkdir_no_parents(fs, p) ==
    IF p \in DOMAIN fs.files
    THEN [fs EXCEPT !.error = FileExistsError(Name(p))]
    ELSE IF p # << >> /\ Parent(p) \notin fs.dirs
    THEN [fs EXCEPT !.error = FileNotFoundError(Name(p))]
    ELSE [fs EXCEPT !.dirs = @ \cup {p}, !.log = Append(@, MkdirEvent(p))]

\* Path.mkdir(parents=True, exist_ok=True): creates the missing ancestors
\* and the directory, accepts an existing directory, and fails when the path
\* or one of its ancestors is a regular file
mkdir_parents(fs, p) ==
    IF p \in DOMAIN fs.files
    THEN [fs EXCEPT !.error = FileExistsError(Name(p))]
    ELSE IF \E a \in Ancestors(p) : a \in DOMAIN fs.files
    THEN [fs EXCEPT !.error = NotADirectoryError(Name(p))]
    ELSE [fs EXCEPT !.dirs = @ \cup Ancestors(p), !.log = Append(@, MkdirEvent(p))]

\* a _render_template that does not overwrite an existing file
render_template_no_overwrite(fs, template_name, dest) ==
    IF template_name \notin templates
    THEN [fs EXCEPT !.error = TemplateNotFound(template_name)]
    ELSE LET made == mkdir_parents(fs, Parent(dest))
         IN IF made.error # NoError THEN made
            ELSE IF dest \in made.dirs
            THEN [made EXCEPT !.error = IsADirectoryError(Name(dest))]
            ELSE IF dest \in DOMAIN made.files THEN made
            ELSE [made EXCEPT
                    !.files = (dest :> Render(template_name, context)) @@ @,
                    !.log = Append(@, WriteEvent(template_name, dest))]

\* ProjectGenerator._render_template: get_template, render, create the
\* parent directories, write_text (overwrites a file, fails on a directory)
render_template(fs, template_name, dest) ==
    IF template_name \notin templates
    THEN [fs EXCEPT !.error = TemplateNotFound(template_name)]
    ELSE LET made == mkdir_parents(fs, Parent(dest))
         IN IF made.error # NoError THEN made
            ELSE IF dest \in made.dirs
            THEN [made EXCEPT !.error = IsADirectoryError(Name(dest))]
            ELSE [made EXCEPT
                    !.files = (dest :> Render(template_name, context)) @@ @,
                    !.log = Append(@, WriteEvent(template_name, dest))]

\* a touch(exist_ok=False): an existing file is an error
touch_exclusive(fs, p) ==
    IF Parent(p) \notin fs.dirs
    THEN [fs EXCEPT !.error = FileNotFoundError(Name(p))]
    ELSE IF p \in fs.dirs \/ p \in DOMAIN fs.files
    THEN [fs EXCEPT !.error = FileExistsError(Name(p))]
    ELSE [fs EXCEPT
            !.files = (p :> EmptyFile) @@ @,
            !.log = Append(@, TouchEvent(p))]

\* Path.touch(): creates an empty file, leaves an existing file or
\* directory as it is, fails when the parent directory does not exist
touch(fs, p) ==
    IF Parent(p) \notin fs.dirs
    THEN [fs EXCEPT !.error = FileNotFoundError(Name(p))]
    ELSE IF p \in fs.dirs
    THEN [fs EXCEPT !.log = Append(@, TouchEvent(p))]
    ELSE [fs EXCEPT
            !.files = IF p \in DOMAIN @ THEN @ ELSE (p :> EmptyFile) @@ @,
            !.log = Append(@, TouchEvent(p))]

\* renders that go on after an exception, as if it had been swallowed
ApplyOp_keep_going(fs, o) ==
    IF fs.error # NoError
    THEN IF o.op = "render"
         THEN [render_template([fs EXCEPT !.error = NoError], o.template, o.path)
                 EXCEPT !.error = fs.error]
         ELSE fs
    ELSE IF o.op = "mkdir" THEN mkdir_parents(fs, o.path)
    ELSE IF o.op = "render" THEN render_template(fs, o.template, o.path)
    ELSE touch(fs, o.path)

\* one operation; after an exception nothing further is executed
ApplyOp(fs, o) ==
    IF fs.error # NoError THEN fs
    ELSE IF o.op = "mkdir" THEN mkdir_parents(fs, o.path)
    ELSE IF o.op = "render" THEN render_template(fs, o.template, o.path)
    ELSE touch(fs, o.path)

RECURSIVE ApplyOps(_, _)
\* the operations of a helper method, in order
ApplyOps(fs, ops) ==
    IF ops = << >> THEN fs
    ELSE ApplyOps(ApplyOp(fs, Head(ops)), Tail(ops))

\* ------------------------------------------------------------------------
\* The helper methods of generate(): the operations each performs, in order
\* ------------------------------------------------------------------------

\* directories created by _render_base_structure
base_dirs ==
    << <<"src">>, <<"src", "llm">>, <<"src", "prompts">>, <<"src", "utils">>,
       <<"src", "handlers">>, <<"tests">>, <<"config">>, <<"data", "cache">>,
       <<"data", "outputs">>, <<"data", "embeddings">>, <<"notebooks">> >>

\* directories that receive a .gitkeep
keep_dirs ==
    << <<"data", "cache">>, <<"data", "outputs">>, <<"data", "embeddings">>,
       <<"notebooks">> >>

\* a _render_base_structure that does not render pytest.ini
render_base_structure_no_pytest_ini(cfg) ==
    [i \in 1..Len(base_dirs) |-> Mkdir(base_dirs[i])]
    \o << RenderTemplate("new/README.md.j2", <<"README.md">>),
          RenderTemplate("new/.env.example.j2", <<".env.example">>),
          RenderTemplate("new/.gitignore.j2", <<".gitignore">>),
          RenderTemplate("new/Makefile.j2", <<"Makefile">>),
          RenderTemplate("new/src/__init__.py.j2", <<"src", "__init__.py">>),
          RenderTemplate("new/src/config.py.j2", <<"src", "config.py">>),
          RenderTemplate("new/src/prompts/__init__.py.j2", <<"src", "prompts", "__init__.py">>),
          RenderTemplate("new/src/prompts/loader.py.j2", <<"src", "prompts", "loader.py">>),
          RenderTemplate("new/src/prompts/templates.yaml.j2", <<"src", "prompts", "templates.yaml">>),
          RenderTemplate("new/src/utils/__init__.py.j2", <<"src", "utils", "__init__.py">>),
          RenderTemplate("new/src/utils/logger.py.j2", <<"src", "utils", "logger.py">>),
          RenderTemplate("new/tests/__init__.py.j2", <<"tests", "__init__.py">>),
          RenderTemplate("new/tests/conftest.py.j2", <<"tests", "conftest.py">>),
          RenderTemplate("new/tests/test_example.py.j2", <<"tests", "test_example.py">>) >>
    \o [i \in 1..Len(keep_dirs) |-> Touch(Append(keep_dirs[i], ".gitkeep"))]

\* ProjectGenerator._render_base_structure
render_base_structure(cfg) ==
    [i \in 1..Len(base_dirs) |-> Mkdir(base_dirs[i])]
    \o << RenderTemplate("new/README.md.j2", <<"README.md">>),
          RenderTemplate("new/.env.example.j2", <<".env.example">>),
          RenderTemplate("new/.gitignore.j2", <<".gitignore">>),
          RenderTemplate("new/Makefile.j2", <<"Makefile">>),
          RenderTemplate("new/src/__init__.py.j2", <<"src", "__init__.py">>),
          RenderTemplate("new/src/config.py.j2", <<"src", "config.py">>),
          RenderTemplate("new/src/prompts/__init__.py.j2", <<"src", "prompts", "__init__.py">>),
          RenderTemplate("new/src/prompts/loader.py.j2", <<"src", "prompts", "loader.py">>),
          RenderTemplate("new/src/prompts/templates.yaml.j2", <<"src", "prompts", "templates.yaml">>),
          RenderTemplate("new/src/utils/__init__.py.j2", <<"src", "utils", "__init__.py">>),
          RenderTemplate("new/src/utils/logger.py.j2", <<"src", "utils", "logger.py">>),
          RenderTemplate("new/tests/__init__.py.j2", <<"tests", "__init__.py">>),
          RenderTemplate("new/tests/conftest.py.j2", <<"tests", "conftest.py">>),
          RenderTemplate("new/tests/test_example.py.j2", <<"tests", "test_example.py">>),
          RenderTemplate("new/pytest.ini.j2", <<"pytest.ini">>) >>
    \o [i \in 1..Len(keep_dirs) |-> Touch(Append(keep_dirs[i], ".gitkeep"))]

\* ProjectGenerator._render_llm_provider
render_llm_provider(cfg) ==
    << RenderTemplate("new/src/llm/__init__.py.j2", <<"src", "llm", "__init__.py">>),
       RenderTemplate("new/src/llm/client.py.j2", <<"src", "llm", "client.py">>) >>

\* a _render_orchestrator that tests for one framework instead of for "none"
render_orchestrator_langchain_only(cfg) ==
    IF cfg.orchestrator = "langchain"
    THEN << RenderTemplate("new/src/rag_pipeline.py.j2", <<"src", "rag_pipeline.py">>) >>
    ELSE << >>

\* ProjectGenerator._render_orchestrator
render_orchestrator(cfg) ==
    IF cfg.orchestrator # "none"
    THEN << RenderTemplate("new/src/rag_pipeline.py.j2", <<"src", "rag_pipeline.py">>) >>
    ELSE << >>

\* ProjectGenerator._render_vector_db
render_vector_db(cfg) ==
    << RenderTemplate("new/src/vector_store.py.j2", <<"src", "vector_store.py">>) >>

\* a _render_ui_framework whose gradio branch names the streamlit template
render_ui_framework_wrong_template(cfg) ==
    IF cfg.ui_framework = "streamlit"
    THEN << RenderTemplate("new/app_streamlit.py.j2", <<"app.py">>) >>
    ELSE IF cfg.ui_framework = "gradio"
    THEN << RenderTemplate("new/app_streamlit.py.j2", <<"app.py">>) >>
    ELSE IF cfg.ui_framework = "fastapi"
    THEN << RenderTemplate("new/app_fastapi.py.j2", <<"app.py">>) >>
    ELSE << >>

\* ProjectGenerator._render_ui_framework
render_ui_framework(cfg) ==
    IF cfg.ui_framework = "streamlit"
    THEN << RenderTemplate("new/app_streamlit.py.j2", <<"app.py">>) >>
    ELSE IF cfg.ui_framework = "gradio"
    THEN << RenderTemplate("new/app_gradio.py.j2", <<"app.py">>) >>
    ELSE IF cfg.ui_framework = "fastapi"
    THEN << RenderTemplate("new/app_fastapi.py.j2", <<"app.py">>) >>
    ELSE << >>

\* a _render_dependency_files that renders requirements.txt in both modes
render_dependency_files_always_requirements(cfg) ==
    IF cfg.dependency_manager = "poetry"
    THEN << RenderTemplate("new/pyproject.toml.j2", <<"pyproject.toml">>),
            RenderTemplate("new/requirements.txt.j2", <<"requirements.txt">>) >>
    ELSE << RenderTemplate("new/requirements.txt.j2", <<"requirements.txt">>),
            RenderTemplate("new/requirements-dev.txt.j2", <<"requirements-dev.txt">>) >>

\* ProjectGenerator._render_dependency_files
render_dependency_files(cfg) ==
    IF cfg.dependency_manager = "poetry"
    THEN << RenderTemplate("new/pyproject.toml.j2", <<"pyproject.toml">>) >>
    ELSE << RenderTemplate("new/requirements.txt.j2", <<"requirements.txt">>),
            RenderTemplate("new/requirements-dev.txt.j2", <<"requirements-dev.txt">>) >>

\* a _render_docker_files that renders the Dockerfile unconditionally
render_docker_files_always_dockerfile(cfg) ==
    IF cfg.enable_docker
    THEN << RenderTemplate("new/Dockerfile.j2", <<"Dockerfile">>),
            RenderTemplate("new/docker-compose.yml.j2", <<"docker-compose.yml">>) >>
    ELSE << RenderTemplate("new/Dockerfile.j2", <<"Dockerfile">>) >>

\* ProjectGenerator._render_docker_files
render_docker_files(cfg) ==
    IF cfg.enable_docker
    THEN << RenderTemplate("new/Dockerfile.j2", <<"Dockerfile">>),
            RenderTemplate("new/docker-compose.yml.j2", <<"docker-compose.yml">>) >>
    ELSE << >>

\* a _render_observability that tests the tool instead of the switch
render_observability_by_tool(cfg) ==
    IF cfg.observability_tool # None
    THEN << RenderTemplate("new/src/observability.py.j2", <<"src", "observability.py">>) >>
    ELSE << >>

\* ProjectGenerator._render_observability
render_observability(cfg) ==
    IF cfg.enable_observability
    THEN << RenderTemplate("new/src/observability.py.j2", <<"src", "observability.py">>) >>
    ELSE << >>

\* the operations of a complete generate() call after the creation of the
\* destination root: the helper methods in the order generate() calls them
generate_plan(cfg) ==
    render_base_structure(cfg) \o render_llm_provider(cfg)
    \o render_orchestrator(cfg) \o render_vector_db(cfg)
    \o render_ui_framework(cfg) \o render_dependency_files(cfg)
    \o render_docker_files(cfg) \o render_observability(cfg)

\* ------------------------------------------------------------------------
\* Actions
\* ------------------------------------------------------------------------

\* the exit status of a process that has not exited
NoExit == -1

Init ==
    /\ config = NoConfig
    /\ error = NoError
    /\ context = NoContext
    /\ pc = "none"
    /\ dirs = {}
    /\ files = << >>
    /\ log = << >>
    /\ runs = 0
    /\ templates = AllTemplates
    /\ prev_log = << >>
    /\ argv = << >>
    /\ destination = ""
    /\ exit_status = NoExit
    /\ success = FALSE
    /\ tree = {}
    /\ todo = {}

\* ProjectConfig(...): the dataclass __init__ assigns the fields, then
\* __post_init__ validates them
ProjectConfig(args) ==
    /\ config' = args
    /\ error' = post_init(args)
    /\ pc' = IF post_init(args) = NoError THEN "ready" ELSE "none"
    /\ UNCHANGED <<context, dirs, files, log, runs, templates, prev_log,
                   destination, cli>>

\* the configuration of an invocation: constructed once, at its start
Construct ==
    /\ pc = "none"
    /\ error = NoError
    /\ runs = 0
    /\ \E args \in ConstructorArgs : ProjectConfig(args)

\* ProjectGenerator(config).generate(destination), up to the first helper:
\* create the destination root and build the context
generate ==
    /\ pc \in {"ready", "done"}
    /\ runs < MaxRuns
    /\ runs' = runs + 1
    /\ prev_log' = log
    /\ destination' = config.project_name
    /\ LET fs == mkdir_parents([dirs |-> dirs, files |-> files, log |-> << >>,
                                error |-> NoError], Root)
       IN /\ dirs' = fs.dirs
          /\ log' = fs.log
          /\ error' = fs.error
          /\ context' = IF fs.error = NoError THEN build_context(config) ELSE context
          /\ pc' = IF fs.error = NoError THEN "base" ELSE "failed"
    /\ UNCHANGED <<config, files, templates, cli>>

\* a helper method of generate(): perform its operations; an exception
\* ends the run where it is raised
Helper(from, to, ops) ==
    /\ pc = from
    /\ LET fs == ApplyOps([dirs |-> dirs, files |-> files, log |-> log,
                           error |-> NoError], ops)
       IN /\ dirs' = fs.dirs
          /\ files' = fs.files
          /\ log' = fs.log
          /\ error' = fs.error
          /\ pc' = IF fs.error = NoError THEN to ELSE "failed"
    /\ UNCHANGED <<config, context, runs, templates, prev_log, destination, cli>>

RenderBaseStructure == Helper("base", "llm", render_base_structure(config))
RenderLlmProvider == Helper("llm", "orchestrator", render_llm_provider(config))
RenderOrchestrator == Helper("orchestrator", "vector_db", render_orchestrator(config))
RenderVectorDb == Helper("vector_db", "ui", render_vector_db(config))
RenderUiFramework == Helper("ui", "deps", render_ui_framework(config))
RenderDependencyFiles == Helper("deps", "docker", render_dependency_files(config))
RenderDockerFiles == Helper("docker", "observability", render_docker_files(config))
RenderObservability == Helper("observability", "done", render_observability(config))

Helpers ==
    \/ RenderBaseStructure
    \/ RenderLlmProvider
    \/ RenderOrchestrator
    \/ RenderVectorDb
    \/ RenderUiFramework
    \/ RenderDependencyFiles
    \/ RenderDockerFiles
    \/ RenderObservability

\* one configuration, generated into the destination up to MaxRuns times
Next ==
    \/ Construct
    \/ generate
    \/ Helpers

Spec == Init /\ [][Next]_vars

\* ------------------------------------------------------------------------
\* Successive invocations with different configurations into one
\* destination root
\* ------------------------------------------------------------------------

\* the configurations of successive invocations: the fields that select
\* files vary, the others are fixed
RerunArgs ==
    [project_name : ProjectNames,
     llm_provider : {"openai"},
     orchestrator : {"langchain", "none"},
     vector_db : {"chromadb"},
     ui_framework : {"streamlit", "fastapi", "none"},
     dependency_manager : valid_dependency_managers,
     enable_observability : {FALSE},
     observability_tool : {None},
     enable_docker : BOOLEAN]

\* a new invocation: a new configuration once the previous run is complete
Reconfigure ==
    /\ pc \in {"none", "ready", "done"}
    /\ \E args \in RerunArgs : ProjectConfig(args)

NextRerun ==
    \/ Reconfigure
    \/ generate
    \/ Helpers

SpecRerun == Init /\ [][NextRerun]_vars

\* ------------------------------------------------------------------------
\* cli.py : the create command, in an environment that may be faulty
\* ------------------------------------------------------------------------

\* a file or directory that was in the destination before the command ran
ForeignFile == [template |-> "foreign", context |-> NoContext]

\* the environments of a create command: the templates the loader finds and
\* what already exists at the destination.  Either everything is in order,
\* or one template is missing, or one path of the destination is taken by a
\* file where a directory is needed or by a directory where a file is.
Environments ==
    {[templates |-> AllTemplates, dirs |-> {}, files |-> << >>]}
    \cup {[templates |-> AllTemplates \ {t}, dirs |-> {}, files |-> << >>] :
              t \in AllTemplates}
    \cup {[templates |-> AllTemplates, dirs |-> {}, files |-> (Root :> ForeignFile)]}
    \cup {[templates |-> AllTemplates, dirs |-> {Root}, files |-> (p :> ForeignFile)] :
              p \in {<<"src">>, <<"data">>}}
    \cup {[templates |-> AllTemplates, dirs |-> {Root, p}, files |-> << >>] :
              p \in {<<"Makefile">>, <<"app.py">>}}

\* the option values of a create command line that names all options
CliArgs ==
    [project_name : ProjectNames,
     llm_provider : {"openai", "local", InvalidValue},
     orchestrator : {"langchain", "none", InvalidValue},
     vector_db : {"chromadb", InvalidValue},
     ui_framework : valid_ui_frameworks \cup {InvalidValue},
     dependency_manager : valid_dependency_managers \cup {InvalidValue},
     enable_docker : BOOLEAN]

\* the answers to the prompts of interactive_config: each list prompt
\* offers allowed values only
InteractiveAnswers ==
    [project_name : ProjectNames,
     llm_provider : {"openai", "local"},
     orchestrator : {"langchain", "none"},
     vector_db : {"chromadb"},
     ui_framework : valid_ui_frameworks,
     dependency_manager : valid_dependency_managers,
     enable_docker : BOOLEAN,
     enable_observability : BOOLEAN,
     observability_tool : {"langsmith", "wandb"}]

InitCli ==
    /\ config = NoConfig
    /\ error = NoError
    /\ context = NoContext
    /\ pc = "none"
    /\ \E env \in Environments :
          /\ templates = env.templates
          /\ dirs = env.dirs
          /\ files = env.files
    /\ log = << >>
    /\ runs = 0
    /\ prev_log = << >>
    /\ argv = << >>
    /\ destination = ""
    /\ exit_status = NoExit
    /\ success = FALSE
    /\ tree = {}
    /\ todo = {}

\* create with every option given: the config is built from the options,
\* with observability off
create_with_flags ==
    /\ pc = "none"
    /\ error = NoError
    /\ exit_status = NoExit
    /\ \E a \in CliArgs :
          ProjectConfig([project_name |-> a.project_name,
                         llm_provider |-> a.llm_provider,
                         orchestrator |-> a.orchestrator,
                         vector_db |-> a.vector_db,
                         ui_framework |-> a.ui_framework,
                         dependency_manager |-> a.dependency_manager,
                         enable_docker |-> a.enable_docker,
                         enable_observability |-> FALSE,
                         observability_tool |-> None])

\* create in interactive mode: interactive_config asks for the tool only
\* when observability was confirmed
create_interactive ==
    /\ pc = "none"
    /\ error = NoError
    /\ exit_status = NoExit
    /\ \E a \in InteractiveAnswers :
          ProjectConfig([project_name |-> a.project_name,
                         llm_provider |-> a.llm_provider,
                         orchestrator |-> a.orchestrator,
                         vector_db |-> a.vector_db,
                         ui_framework |-> a.ui_framework,
                         dependency_manager |-> a.dependency_manager,
                         enable_docker |-> a.enable_docker,
                         enable_observability |-> a.enable_observability,
                         observability_tool |->
                             IF a.enable_observability
                             THEN a.observability_tool ELSE None])

\* create calls generate() once
create_generate ==
    /\ pc = "ready"
    /\ exit_status = NoExit
    /\ generate

\* a create that reports success after a failed generation: the except
\* branch prints the error and falls through
create_outcome_falls_through(position, err) ==
    IF position = "none" THEN [exit_status |-> 1, success |-> FALSE]
    ELSE [exit_status |-> 0, success |-> TRUE]

\* how create ends: a ValueError of ProjectConfig is not caught and ends the
\* process with status 1; an exception of generate() is caught, reported and
\* turned into typer.Exit(1); otherwise the success message is printed and
\* the command returns
create_outcome(position, err) ==
    IF position = "none" THEN [exit_status |-> 1, success |-> FALSE]
    ELSE IF position = "failed" THEN [exit_status |-> 1, success |-> FALSE]
    ELSE [exit_status |-> 0, success |-> TRUE]

\* the end of the create command
create_exit ==
    /\ exit_status = NoExit
    /\ \/ pc = "none" /\ error # NoError
       \/ pc \in {"failed", "done"}
    /\ exit_status' = create_outcome(pc, error).exit_status
    /\ success' = create_outcome(pc, error).success
    /\ UNCHANGED <<config, error, context, pc, dirs, files, log, runs,
                   templates, prev_log, argv, destination, tree, todo>>

NextCli ==
    \/ create_with_flags
    \/ create_interactive
    \/ create_generate
    \/ Helpers
    \/ create_exit

SpecCli == InitCli /\ [][NextCli]_vars

\* ------------------------------------------------------------------------
\* __main__.py, scaffold.py, template_engine.py : python -m genai_scaffold
\* ------------------------------------------------------------------------

\* PurePath.suffix of a file name: the part from the last dot on, empty
\* when the only dot is the leading one or there is none
path_suffix ==
    [n \in {"README.md.j2", ".env.example.j2", "config.py.j2", "page.j2.j2"} |-> ".j2"]
    @@ ("notes.txt" :> ".txt") @@ (".gitkeep" :> "") @@ ("LICENSE" :> "")

\* PurePath.with_suffix(''): the name without its suffix
with_suffix_empty ==
    ("README.md.j2" :> "README.md") @@ (".env.example.j2" :> ".env.example")
    @@ ("config.py.j2" :> "config.py") @@ ("page.j2.j2" :> "page.j2")
    @@ ("notes.txt" :> "notes") @@ (".gitkeep" :> ".gitkeep")
    @@ ("LICENSE" :> "LICENSE")

\* an entry of TEMPLATES_DIR: its path relative to TEMPLATES_DIR as a
\* string, the directory it lies in, its name, and whether it is a directory
Entry(relative, dir, name, is_dir) ==
    [relative |-> relative, dir |-> dir, name |-> name, is_dir |-> is_dir]

\* the template directories the command is run with
Trees ==
    { { Entry("new", << >>, "new", TRUE),
        Entry("new/README.md.j2", <<"new">>, "README.md.j2", FALSE),
        Entry("new/.env.example.j2", <<"new">>, ".env.example.j2", FALSE),
        Entry("new/src", <<"new">>, "src", TRUE),
        Entry("new/src/config.py.j2", <<"new", "src">>, "config.py.j2", FALSE) },
      { Entry("README.md.j2", << >>, "README.md.j2", FALSE),
        Entry("notes.txt", << >>, "notes.txt", FALSE),
        Entry("docs", << >>, "docs", TRUE),
        Entry("docs/page.j2.j2", <<"docs">>, "page.j2.j2", FALSE),
        Entry("data", << >>, "data", TRUE),
        Entry("data/.gitkeep", <<"data">>, ".gitkeep", FALSE) },
      { Entry("LICENSE", << >>, "LICENSE", FALSE),
        Entry("empty", << >>, "empty", TRUE) } }

\* sys.argv of the processes
MainArgvs ==
    { <<"genai_scaffold">>,
      <<"genai_scaffold", "proj">>,
      <<"genai_scaffold", "proj", "--provider", "openai">>,
      <<"genai_scaffold", "proj", "--provider">>,
      <<"genai_scaffold", "create", "proj", "--provider", "anthropic",
        "--orchestrator", "langchain", "--vector-db", "chromadb",
        "--ui", "streamlit">> }

InitMain ==
    /\ config = NoConfig
    /\ error = NoError
    /\ context = NoContext
    /\ pc = "main"
    /\ dirs = {}
    /\ files \in {<< >>, Root :> ForeignFile}
    /\ log = << >>
    /\ runs = 0
    /\ templates = AllTemplates
    /\ prev_log = << >>
    /\ argv \in MainArgvs
    /\ destination = ""
    /\ exit_status = NoExit
    /\ success = FALSE
    /\ tree \in Trees
    /\ todo = {}

\* sys.argv.index("--provider"), as an index into argv
provider_index(av) ==
    CHOOSE i \in DOMAIN av :
        av[i] = "--provider" /\ \A j \in 1..(i - 1) : av[j] # "--provider"

\* the provider main() passes on
main_provider(av) ==
    IF \E i \in DOMAIN av : av[i] = "--provider"
    THEN IF provider_index(av) < Len(av) THEN av[provider_index(av) + 1] ELSE "gpt"
    ELSE "gpt"

\* main(): without an argument print the usage and exit 1; otherwise take
\* sys.argv[1] as the project name and call scaffold_project
main ==
    /\ pc = "main"
    /\ IF Len(argv) < 2
       THEN /\ exit_status' = 1
            /\ pc' = "exited"
            /\ UNCHANGED <<destination, context>>
       ELSE /\ destination' = argv[2]
            /\ context' = [project_name |-> argv[2], llm_provider |-> main_provider(argv)]
            /\ pc' = "scaffold"
            /\ UNCHANGED exit_status
    /\ UNCHANGED <<config, error, dirs, files, log, runs, templates, prev_log,
                   argv, success, tree, todo>>

\* scaffold_project, up to the loop of render_templates: create the project
\* root; rglob('*') lists the entries of TEMPLATES_DIR
scaffold_project ==
    /\ pc = "scaffold"
    /\ LET fs == mkdir_parents([dirs |-> dirs, files |-> files, log |-> log,
                                error |-> NoError], Root)
       IN /\ dirs' = fs.dirs
          /\ log' = fs.log
          /\ error' = fs.error
          /\ pc' = IF fs.error = NoError THEN "render" ELSE "failed"
    /\ todo' = tree
    /\ UNCHANGED <<config, context, files, runs, templates, prev_log, argv,
                   destination, exit_status, success, tree>>

\* a destination that loses its suffix whatever the suffix is
dest_of_always_strip(e) == Append(e.dir, with_suffix_empty[e.name])

\* the destination of a template file: the relative path, without the
\* suffix when the suffix is .j2
dest_of(e) ==
    Append(e.dir, IF path_suffix[e.name] = ".j2"
                  THEN with_suffix_empty[e.name] ELSE e.name)

\* one iteration of the loop of render_templates, in the order rglob yields
\* the entries: a directory is skipped, a file is rendered to its destination
render_templates ==
    /\ pc = "render"
    /\ \E e \in todo :
          /\ todo' = todo \ {e}
          /\ LET made == mkdir_parents([dirs |-> dirs, files |-> files,
                                        log |-> log, error |-> NoError],
                                       Parent(dest_of(e)))
                 fs == IF e.is_dir
                       THEN [dirs |-> dirs, files |-> files, log |-> log,
                             error |-> NoError]
                       ELSE IF made.error # NoError THEN made
                       ELSE IF dest_of(e) \in made.dirs
                       THEN [made EXCEPT !.error = IsADirectoryError(e.name)]
                       ELSE [made EXCEPT
                               !.files = (dest_of(e) :> Render(e.relative, context)) @@ @,
                               !.log = Append(@, WriteEvent(e.relative, dest_of(e)))]
             IN /\ dirs' = fs.dirs
                /\ files' = fs.files
                /\ log' = fs.log
                /\ error' = fs.error
                /\ pc' = IF fs.error = NoError THEN "render" ELSE "failed"
    /\ UNCHANGED <<config, context, runs, templates, prev_log, argv,
                   destination, exit_status, success, tree>>

\* the end of scaffold_project and of main(): the message is printed and the
\* process ends with status 0; an exception ends it with status 1
main_exit ==
    /\ \/ pc = "render" /\ todo = {}
       \/ pc = "failed"
    /\ exit_status = NoExit
    /\ exit_status' = IF pc = "failed" THEN 1 ELSE 0
    /\ success' = (pc # "failed")
    /\ pc' = "exited"
    /\ UNCHANGED <<config, error, context, dirs, files, log, runs, templates,
                   prev_log, argv, destination, tree, todo>>

NextMain ==
    \/ main
    \/ scaffold_project
    \/ render_templates
    \/ main_exit

SpecMain == InitMain /\ [][NextMain]_vars

\* ------------------------------------------------------------------------
\* Vocabulary of the properties
\* ------------------------------------------------------------------------

\* a ProjectConfig(...) call has been made
Constructed == config \in ConstructorArgs

\* the enum fields in the order __post_init__ checks them
EnumFields ==
    << "llm_provider", "orchestrator", "vector_db", "ui_framework",
       "dependency_manager", "observability_tool" >>

\* the allowed set of each enum field
Allowed ==
    [llm_provider |-> valid_llm_providers,
     orchestrator |-> valid_orchestrators,
     vector_db |-> valid_vector_dbs,
     ui_framework |-> valid_ui_frameworks,
     dependency_manager |-> valid_dependency_managers,
     observability_tool |-> valid_observability_tools]

\* how the error message names each field
ErrorLabel ==
    [llm_provider |-> "Invalid LLM provider",
     orchestrator |-> "Invalid orchestrator",
     vector_db |-> "Invalid vector DB",
     ui_framework |-> "Invalid UI framework",
     dependency_manager |-> "Invalid dependency manager",
     observability_tool |-> "Invalid observability tool"]

\* construction failed: an exception was raised and no config object exists
ConstructionFailed == pc = "none" /\ error.type = "ValueError"

\* a generate() call has built its context from the current config
InRun == pc \notin {"none", "ready"}

\* a generate() call has returned normally
Completed == pc = "done"

\* the completed run is the first one, so it started from an empty destination
CompletedFromEmpty == pc = "done" /\ runs = 1

Present(p) == p \in DOMAIN files

\* destinations written by the current run
WrittenPaths == {log[i].path : i \in {j \in DOMAIN log : log[j].op = "write"}}

\* (template, destination) written by the current run
WrittenPairs ==
    {<<log[i].template, log[i].path>> : i \in {j \in DOMAIN log : log[j].op = "write"}}

\* p was written by the current run and is on disk
Wrote(p) == p \in WrittenPaths /\ Present(p)

\* p was not written by the current run; after a run from an empty
\* destination it is not on disk either
NotWritten(p) == p \notin WrittenPaths /\ (runs = 1 => ~Present(p))

\* ------------------------------------------------------------------------
\* C1
\* ------------------------------------------------------------------------

\* C1: for each enum field, constructing ProjectConfig with a value outside
\* the field's allowed set fails at construction, and the error names that
\* field and the value (the first such field in the order of the checks,
\* hence that field whenever the fields checked before it are valid);
\* constructing with every enum field inside its allowed set succeeds.
C1_EnumValidation ==
    Constructed =>
        /\ (\A i \in DOMAIN EnumFields : config[EnumFields[i]] \in Allowed[EnumFields[i]])
              => (error = NoError /\ pc # "none")
        /\ \A i \in DOMAIN EnumFields :
              config[EnumFields[i]] \notin Allowed[EnumFields[i]] =>
                /\ ConstructionFailed
                /\ (\A j \in 1..(i - 1) : config[EnumFields[j]] \in Allowed[EnumFields[j]])
                      => /\ error.label = ErrorLabel[EnumFields[i]]
                         /\ error.value = config[EnumFields[i]]

\* a construction that failed on vector_db alone
C1_Witness ==
    /\ Constructed
    /\ config.vector_db = InvalidValue
    /\ \A i \in DOMAIN EnumFields :
          EnumFields[i] # "vector_db" => config[EnumFields[i]] \in Allowed[EnumFields[i]]
    /\ ConstructionFailed
    /\ error.label = "Invalid vector DB"

\* ------------------------------------------------------------------------
\* C2
\* ------------------------------------------------------------------------

\* C2: observability_tool is required iff enable_observability: constructing
\* with enable_observability true and no tool, or with enable_observability
\* false and a tool, fails at construction.
C2_ObservabilityConsistency ==
    (/\ Constructed
     /\ \/ config.enable_observability /\ config.observability_tool = None
        \/ ~config.enable_observability /\ config.observability_tool \in {"langsmith", "wandb"})
    => ConstructionFailed

\* ------------------------------------------------------------------------
\* C3
\* ------------------------------------------------------------------------

\* the use_<value> flags _build_context emits for each enum family
FlagFamily ==
    [llm_provider |-> {"use_openai", "use_anthropic", "use_azure", "use_ollama"},
     orchestrator |-> {"use_langchain", "use_llamaindex", "use_dspy"},
     vector_db |-> {"use_pinecone", "use_chromadb", "use_qdrant", "use_pgvector"},
     ui_framework |-> {"use_streamlit", "use_gradio", "use_fastapi"},
     dependency_manager |-> {"use_poetry"}]

\* the allowed values for which _build_context emits no flag
Unflagged ==
    [llm_provider |-> {"local"},
     orchestrator |-> {"none"},
     vector_db |-> {},
     ui_framework |-> {"none"},
     dependency_manager |-> {"pip"}]

\* the flags of family f that are true in the context
TrueFlags(f) == {k \in FlagFamily[f] : context[k]}

pyproject_toml == <<"pyproject.toml">>
requirements_txt == <<"requirements.txt">>
requirements_dev_txt == <<"requirements-dev.txt">>

\* C4: a run into an empty destination with dependency_manager=poetry writes
\* pyproject.toml and neither requirements file; with pip it writes both
\* requirements files and no pyproject.toml, whatever the other fields are.
C4_DependencyExclusivity ==
    CompletedFromEmpty =>
        IF config.dependency_manager = "poetry"
        THEN /\ Wrote(pyproject_toml)
             /\ NotWritten(requirements_txt)
             /\ NotWritten(requirements_dev_txt)
        ELSE /\ Wrote(requirements_txt)
             /\ Wrote(requirements_dev_txt)
             /\ NotWritten(pyproject_toml)

\* a completed poetry run into an empty destination
C4_Witness ==
    /\ CompletedFromEmpty
    /\ config.dependency_manager = "poetry"
    /\ Present(pyproject_toml)
    /\ ~Present(requirements_txt)

\* C5 as stated: after any sequence of completed runs into the same root
\* the tree holds only the dependency files of the last run's manager.
C5_NoStaleDependencyFiles ==
    Completed =>
        IF config.dependency_manager = "poetry"
        THEN ~Present(requirements_txt) /\ ~Present(requirements_dev_txt)
        ELSE ~Present(pyproject_toml)

\* p is on disk as an earlier run with dependency manager dm rendered it
LeftoverOf(p, dm) ==
    Present(p) =>
        /\ p \notin WrittenPaths
        /\ files[p].context.dependency_manager = dm
        /\ runs > 1

\* C5 amended: after any sequence of completed runs into the same root the
\* dependency files of the last run's manager are present as the last run
\* rendered them; a dependency file of the other manager is present only as
\* a leftover of an earlier run that used that manager, which the last run
\* neither wrote nor removed.
C5_LastManagerPresent ==
    Completed =>
        IF config.dependency_manager = "poetry"
        THEN /\ Wrote(pyproject_toml)
             /\ files[pyproject_toml] = Render("new/pyproject.toml.j2", context)
             /\ LeftoverOf(requirements_txt, "pip")
             /\ LeftoverOf(requirements_dev_txt, "pip")
        ELSE /\ Wrote(requirements_txt)
             /\ Wrote(requirements_dev_txt)
             /\ files[requirements_txt] = Render("new/requirements.txt.j2", context)
             /\ files[requirements_dev_txt] = Render("new/requirements-dev.txt.j2", context)
             /\ LeftoverOf(pyproject_toml, "poetry")

\* a completed poetry run over the tree of an earlier pip run
C5_Witness ==
    /\ Completed
    /\ runs = 2
    /\ config.dependency_manager = "poetry"
    /\ Present(pyproject_toml)
    /\ Present(requirements_txt)
    /\ Present(requirements_dev_txt)

\* ------------------------------------------------------------------------
\* C6, C7
\* ------------------------------------------------------------------------

Dockerfile == <<"Dockerfile">>
docker_compose_yml == <<"docker-compose.yml">>
observability_py == <<"src", "observability.py">>

\* C6: a run into an empty destination writes Dockerfile and
\* docker-compose.yml, both, iff enable_docker is true, and neither
\* otherwise, whatever the other fields are.
C6_DockerPair ==
    CompletedFromEmpty =>
        IF config.enable_docker
        THEN Wrote(Dockerfile) /\ Wrote(docker_compose_yml)
        ELSE NotWritten(Dockerfile) /\ NotWritten(docker_compose_yml)

\* a completed run without docker into an empty destination
C6_Witness ==
    /\ CompletedFromEmpty
    /\ ~config.enable_docker
    /\ ~Present(Dockerfile)
    /\ ~Present(docker_compose_yml)

\* C7: a run into an empty destination writes src/observability.py iff
\* enable_observability is true, whatever observability_tool is.
C7_ObservabilityFile ==
    CompletedFromEmpty =>
        IF config.enable_observability
        THEN Wrote(observability_py)
        ELSE NotWritten(observability_py)

\* observability enabled without a tool: the file is still written
C7_Witness ==
    /\ CompletedFromEmpty
    /\ config.enable_observability
    /\ config.observability_tool = None
    /\ Present(observability_py)

\* ------------------------------------------------------------------------
\* C8, C9, C10
\* ------------------------------------------------------------------------

app_py == <<"app.py">>
rag_pipeline_py == <<"src", "rag_pipeline.py">>

\* the template of each UI framework that has an entry point
UiTemplate ==
    [streamlit |-> "new/app_streamlit.py.j2",
     gradio |-> "new/app_gradio.py.j2",
     fastapi |-> "new/app_fastapi.py.j2"]

UiTemplates == {UiTemplate[u] : u \in DOMAIN UiTemplate}

\* C8: a run produces at most one UI entry point, always at app.py:
\* streamlit, gradio and fastapi render it from their own template, and
\* ui_framework=none writes no app.py.
C8_UiEntryPoint ==
    Completed =>
        /\ {pr \in WrittenPairs : pr[1] \in UiTemplates \/ pr[2] = app_py}
              = IF config.ui_framework = "none" THEN {}
                ELSE {<<UiTemplate[config.ui_framework], app_py>>}
        /\ {p \in DOMAIN files : files[p].template \in UiTemplates} \subseteq {app_py}
        /\ IF config.ui_framework = "none"
           THEN NotWritten(app_py)
           ELSE /\ Present(app_py)
                /\ files[app_py] = Render(UiTemplate[config.ui_framework], context)

\* a completed gradio run
C8_Witness ==
    /\ Completed
    /\ config.ui_framework = "gradio"
    /\ Present(app_py)
    /\ files[app_py].template = "new/app_gradio.py.j2"

\* C9: a run writes src/rag_pipeline.py iff orchestrator is not "none".
C9_RagPipeline ==
    Completed =>
        IF config.orchestrator # "none"
        THEN Wrote(rag_pipeline_py)
        ELSE NotWritten(rag_pipeline_py)

\* a completed dspy run
C9_Witness ==
    /\ Completed
    /\ config.orchestrator = "dspy"
    /\ Present(rag_pipeline_py)

\* the files every run writes
UnconditionalFiles ==
    { <<"README.md">>, <<".env.example">>, <<".gitignore">>, <<"Makefile">>,
      <<"pytest.ini">>, <<"src", "__init__.py">>, <<"src", "config.py">>,
      <<"src", "prompts", "__init__.py">>, <<"src", "prompts", "loader.py">>,
      <<"src", "prompts", "templates.yaml">>, <<"src", "utils", "__init__.py">>,
      <<"src", "utils", "logger.py">>, <<"src", "llm", "__init__.py">>,
      <<"src", "llm", "client.py">>, <<"src", "vector_store.py">>,
      <<"tests", "__init__.py">>, <<"tests", "conftest.py">>,
      <<"tests", "test_example.py">> }

\* C10: for every valid configuration a successful run writes the
\* unconditional file set, whatever the configuration chooses.
C10_UnconditionalFiles ==
    Completed => \A p \in UnconditionalFiles : Wrote(p)

\* a completed run of the configuration that selects no optional file
C10_Witness ==
    /\ Completed
    /\ config.orchestrator = "none"
    /\ config.ui_framework = "none"
    /\ ~config.enable_docker
    /\ ~config.enable_observability
    /\ UnconditionalFiles \subseteq DOMAIN files

\* ------------------------------------------------------------------------
\* C12
\* ------------------------------------------------------------------------

\* C12: running generation again with the same configuration into the same
\* destination root leaves the tree as the first run left it: no step of a
\* later run fails, and none changes the set of directories, the set of
\* files or the content of a file.
C12_RerunIdempotent ==
    [][runs' >= 2 => (dirs' = dirs /\ files' = files /\ pc' # "failed")]_vars

\* a second run of the same configuration has completed
C12_Witness ==
    /\ Completed
    /\ runs = 2
    /\ UnconditionalFiles \subseteq DOMAIN files
    /\ <<"notebooks", ".gitkeep">> \in DOMAIN files

\* ------------------------------------------------------------------------
\* C16
\* ------------------------------------------------------------------------

IsWrite(e) == e.op = "write"
IsRender(o) == o.op = "render"

\* the (template, destination) pairs of the write events of l, in order
WritePairs(l) ==
    [i \in 1..Len(SelectSeq(l, IsWrite)) |->
        <<SelectSeq(l, IsWrite)[i].template, SelectSeq(l, IsWrite)[i].path>>]

\* the (template, destination) pairs a list of operations renders, in order
PlannedPairs(ops) ==
    [i \in 1..Len(SelectSeq(ops, IsRender)) |->
        <<SelectSeq(ops, IsRender)[i].template, SelectSeq(ops, IsRender)[i].path>>]

\* the directories the mkdir events of l create
MadeDirs(l) ==
    UNION {Ancestors(l[i].path) : i \in {j \in DOMAIN l : l[j].op = "mkdir"}}

CreatedBefore(l, i, p) ==
    \A a \in Ancestors(Parent(p)) :
        \E j \in 1..(i - 1) : l[j].op = "mkdir" /\ a \in Ancestors(l[j].path)

\* C17: in every run the destination root is created first, every file
\* write (and marker touch) is preceded in the same run by the creation of
\* all ancestor directories of the file, no operation fails for a missing
\* directory, and on disk the parent of every file and directory exists.
C17_ParentsFirst ==
    /\ log # << >> => log[1] = MkdirEvent(Root)
    /\ \A i \in DOMAIN log :
          log[i].op \in {"write", "touch"} => CreatedBefore(log, i, log[i].path)
    /\ error.type # "FileNotFoundError"
    /\ \A p \in DOMAIN files : Parent(p) \in dirs
    /\ \A d \in dirs : Ancestors(d) \subseteq dirs

\* a run that has written a file three levels below the root
C17_Witness ==
    /\ InRun
    /\ \E i \in DOMAIN log :
          /\ log[i] = WriteEvent("new/src/prompts/loader.py.j2", <<"src", "prompts", "loader.py">>)
          /\ CreatedBefore(log, i, log[i].path)
    /\ <<"data", "cache", ".gitkeep">> \in DOMAIN files

\* ------------------------------------------------------------------------
\* C18
\* ------------------------------------------------------------------------

\* the configuration fields _build_context copies
RawFields ==
    {"project_name", "llm_provider", "orchestrator", "vector_db",
     "ui_framework", "dependency_manager", "enable_observability",
     "observability_tool", "enable_docker"}

\* the field and the value each use_<value> flag stands for
FlagMeaning ==
    [use_langchain |-> <<"orchestrator", "langchain">>,
     use_llamaindex |-> <<"orchestrator", "llamaindex">>,
     use_dspy |-> <<"orchestrator", "dspy">>,
     use_openai |-> <<"llm_provider", "openai">>,
     use_anthropic |-> <<"llm_provider", "anthropic">>,
     use_azure |-> <<"llm_provider", "azure">>,
     use_ollama |-> <<"llm_provider", "ollama">>,
     use_pinecone |-> <<"vector_db", "pinecone">>,
     use_chromadb |-> <<"vector_db", "chromadb">>,
     use_qdrant |-> <<"vector_db", "qdrant">>,
     use_pgvector |-> <<"vector_db", "pgvector">>,
     use_streamlit |-> <<"ui_framework", "streamlit">>,
     use_gradio |-> <<"ui_framework", "gradio">>,
     use_fastapi |-> <<"ui_framework", "fastapi">>,
     use_poetry |-> <<"dependency_manager", "poetry">>,
     use_langsmith |-> <<"observability_tool", "langsmith">>,
     use_wandb |-> <<"observability_tool", "wandb">>]

\* C18: for every valid configuration each use_<value> flag of the context
\* is true iff the corresponding field equals <value>, the nine raw fields
\* are copied unchanged, the context has no other key, and building it
\* never fails.
C18_ContextFaithful ==
    InRun =>
        /\ pc # "failed"
        /\ DOMAIN context = RawFields \cup DOMAIN FlagMeaning
        /\ \A f \in RawFields : context[f] = config[f]
        /\ \A k \in DOMAIN FlagMeaning :
              context[k] <=> (config[FlagMeaning[k][1]] = FlagMeaning[k][2])

\* the context of a configuration with a flagless provider and a tool
C18_Witness ==
    /\ InRun
    /\ config.llm_provider = "local"
    /\ config.observability_tool = "wandb"
    /\ context.use_wandb
    /\ ~context.use_langsmith
    /\ context.project_name = "test-app"

\* ------------------------------------------------------------------------
\* C13
\* ------------------------------------------------------------------------

gitkeep(d) == Append(d, ".gitkeep")

\* the current run rendered a file directly into d
RendersInto(d) == \E p \in WrittenPaths : Parent(p) = d

\* d holds a file or a directory
NotEmpty(d) ==
    \/ \E p \in DOMAIN files : Parent(p) = d
    \/ \E e \in dirs : e # d /\ Parent(e) = d

\* C13: when a run completes, every directory it created and rendered no
\* file into contains a .gitkeep marker, so that no created directory is
\* left empty (a directory that holds only directories is not counted).
C13_MarkedDirectories ==
    Completed =>
        \A d \in MadeDirs(log) :
            ~RendersInto(d) => (Present(gitkeep(d)) \/ NotEmpty(d))

\* ------------------------------------------------------------------------
\* C11
\* ------------------------------------------------------------------------

\* s is an initial segment of t
IsPrefix(s, t) == Len(s) <= Len(t) /\ SubSeq(t, 1, Len(s)) = s

\* paths the current run has touched
TouchedPaths == {log[i].path : i \in {j \in DOMAIN log : log[j].op = "touch"}}

\* the generate() call has raised
Failed == pc = "failed"

\* C11: when a run fails, the caller receives the first error, no
\* descriptor after the failing one is rendered, and what the run wrote
\* before it stays on disk as written: the writes are an initial segment of
\* the configuration's sequence of descriptors, a missing template is the
\* one of the next descriptor, every written file holds its rendered text,
\* and the run's files are exactly those written or touched before the
\* failure.
C11_FailStop ==
    Failed =>
        LET done == WritePairs(log)
            plan == PlannedPairs(generate_plan(config))
        IN /\ error # NoError
           /\ IsPrefix(done, plan)
           /\ Len(done) < Len(plan)
           /\ \A i \in DOMAIN done : done[i][1] \in templates
           /\ error.type = "TemplateNotFound" =>
                 /\ error.value = plan[Len(done) + 1][1]
                 /\ error.value \notin templates
           /\ error.type = "IsADirectoryError" =>
                 plan[Len(done) + 1][2] \in dirs
           /\ \A i \in DOMAIN done :
                 /\ Present(done[i][2])
                 /\ files[done[i][2]] = Render(done[i][1], context)
           /\ {p \in DOMAIN files : files[p] # ForeignFile}
                 = WrittenPaths \cup TouchedPaths

\* a run that failed on a missing template after the base structure
C11_Witness ==
    /\ Failed
    /\ error = TemplateNotFound("new/src/vector_store.py.j2")
    /\ Present(<<"src", "llm", "client.py">>)
    /\ Present(<<"README.md">>)
    /\ ~Present(<<"src", "vector_store.py">>)
    /\ ~Present(<<"requirements.txt">>)
    /\ ~Present(<<"pyproject.toml">>)

\* ------------------------------------------------------------------------
\* C15
\* ------------------------------------------------------------------------

Exited == exit_status # NoExit

\* every enum field of the configuration holds an allowed value
AllFieldsAllowed ==
    \A i \in DOMAIN EnumFields : config[EnumFields[i]] \in Allowed[EnumFields[i]]

\* C15: create exits with status 0 iff the configuration was constructed and
\* the generation completed; an invalid enum value or a failed generation
\* gives a non-zero status and no success message.
C15_ExitStatus ==
    Exited =>
        /\ exit_status \in {0, 1}
        /\ exit_status = 0 <=>
              /\ AllFieldsAllowed
              /\ error = NoError
              /\ runs = 1
              /\ WritePairs(log) = PlannedPairs(generate_plan(config))
        /\ success <=> exit_status = 0
        /\ ~AllFieldsAllowed => (exit_status = 1 /\ ~success /\ runs = 0)
        /\ (Failed \/ error # NoError) => (exit_status = 1 /\ ~success)

\* a create whose generation failed has exited with status 1
C15_Witness ==
    /\ Exited
    /\ Failed
    /\ AllFieldsAllowed
    /\ error.type = "TemplateNotFound"
    /\ exit_status = 1
    /\ ~success

\* ------------------------------------------------------------------------
\* C14
\* ------------------------------------------------------------------------

\* the process was started as `python -m genai_scaffold create <path> ...`
CreateCommandLine == Len(argv) >= 3 /\ argv[2] = "create"

\* the files C14 names
C14Files ==
    { <<"README.md">>, <<".env.example">>, <<"Makefile">>,
      <<"requirements.txt">>, <<"docker-compose.yml">>,
      <<"src", "llm", "client.py">>, <<"src", "prompts", "loader.py">>,
      <<"src", "vector_store.py">>, <<"src", "rag_pipeline.py">>,
      <<"tests", "test_example.py">>, <<"tests", "conftest.py">> }

\* C14: executing the package as a module with `create <path> --provider P
\* --orchestrator O --vector-db V --ui U` creates the project at <path>,
\* with the files of a generated project under it, and exits with status 0.
C14_ModuleCreate ==
    (pc = "exited" /\ CreateCommandLine) =>
        /\ exit_status = 0
        /\ destination = argv[3]
        /\ \A p \in C14Files : Present(p)

\* ------------------------------------------------------------------------
\* C19
\* ------------------------------------------------------------------------

\* the destination C19 states: the relative path, the name without one
\* trailing ".j2" when it ends in ".j2"
ExpectedDest(e) ==
    Append(e.dir, IF e.name = "README.md.j2" THEN "README.md"
                  ELSE IF e.name = ".env.example.j2" THEN ".env.example"
                  ELSE IF e.name = "config.py.j2" THEN "config.py"
                  ELSE IF e.name = "page.j2.j2" THEN "page.j2"
                  ELSE e.name)

\* the write events of the template with relative path r
WritesOf(r) == {i \in DOMAIN log : log[i].op = "write" /\ log[i].template = r}

\* render_templates has visited every entry
Rendered == pc = "exited" /\ success

\* C19: render_templates writes every template file exactly once, to its
\* relative path under the destination root with one trailing ".j2"
\* stripped from the name when the name ends in it and unchanged otherwise;
\* directories are never written as files.
C19_DestinationNames ==
    /\ pc \in {"render", "exited"} =>
          \A i \in DOMAIN log : log[i].op = "write" =>
              \E e \in tree \ todo :
                  /\ ~e.is_dir
                  /\ log[i].template = e.relative
                  /\ log[i].path = ExpectedDest(e)
    /\ Rendered =>
          /\ \A e \in tree :
                IF e.is_dir
                THEN /\ WritesOf(e.relative) = {}
                     /\ Append(e.dir, e.name) \notin DOMAIN files
                ELSE /\ Cardinality(WritesOf(e.relative)) = 1
                     /\ Present(ExpectedDest(e))
                     /\ files[ExpectedDest(e)] = Render(e.relative, context)
          /\ Cardinality(DOMAIN files) = Cardinality({e \in tree : ~e.is_dir})

\* a tree with a doubly suffixed template and a file without suffix, rendered
C19_Witness ==
    /\ Rendered
    /\ Present(<<"docs", "page.j2">>)
    /\ Present(<<"notes.txt">>)
    /\ Present(<<"README.md">>)
    /\ Present(<<"data", ".gitkeep">>)
    /\ <<"docs">> \in dirs

====
